---- MODULE Spec2Model ----
(***************************************************************************)
(* Model of solution.py: add_virtual_column(df, rule, new_column) and its  *)
(* helper _parse_and_validate_rule.                                        *)
(*                                                                         *)
(* A string is a sequence of one-character strings.  A DataFrame is a      *)
(* record [columns, data]: columns is the sequence of column names and     *)
(* data[i] is the sequence of values (one per row) of column i.  Frames    *)
(* live in a heap of objects, so that "the input" and "the returned        *)
(* dataset" are two references that may or may not name the same object.   *)
(***************************************************************************)
EXTENDS Integers, Sequences, FiniteSets

VARIABLES heap, df, rule, new_column, result, pc

vars == <<heap, df, rule, new_column, result, pc>>

(***************************************************************************)
(* Bounds of the model.                                                    *)
(***************************************************************************)
MaxRuleLen == 4
MaxNameLen == 2
MaxRows == 2
MaxVal == 2

(***************************************************************************)
(* Characters.                                                             *)
(***************************************************************************)
Lower == {"a","b","c","d","e","f","g","h","i","j","k","l","m",
          "n","o","p","q","r","s","t","u","v","w","x","y","z"}
Upper == {"A","B","C","D","E","F","G","H","I","J","K","L","M",
          "N","O","P","Q","R","S","T","U","V","W","X","Y","Z"}
Digit == {"0","1","2","3","4","5","6","7","8","9"}

\* solution.py line 9: the characters a rule may hold.
ALLOWED_CHARS == Lower \cup Upper \cup Digit \cup {"_", " ", "+", "-", "*"}

\* solution.py line 12: the operators, in the order the code tries them.
OPERATORS == <<"+", "-", "*">>

\* solution.py line 16.
FORBIDDEN_IN_COLUMN_NAMES == {OPERATORS[i] : i \in 1..Len(OPERATORS)}

\* str.isalnum() on one character: true of the ASCII letters and digits and
\* of every other Unicode letter or digit; the letter e-acute stands for
\* the latter.
isalnum(char) == char \in Lower \cup Upper \cup Digit \cup {"é"}

\* The characters str.strip() removes (str.isspace()): the space and the
\* other white space characters that a TLA+ string can hold.
isspace(char) == char \in {" ", "\t", "\n", "\r", "\f"}

(***************************************************************************)
(* Python string operations, on sequences of characters.                   *)
(***************************************************************************)
\* c in s
Contains(s, c) == \E i \in 1..Len(s) : s[i] = c

RECURSIVE lstrip(_)
lstrip(s) == IF s # <<>> /\ isspace(Head(s)) THEN lstrip(Tail(s)) ELSE s

RECURSIVE rstrip(_)
rstrip(s) ==
    IF s # <<>> /\ isspace(s[Len(s)]) THEN rstrip(SubSeq(s, 1, Len(s) - 1)) ELSE s

\* s.strip()
strip(s) == rstrip(lstrip(s))

\* s.split(sep) for a one-character sep: the parts between the occurrences
\* of sep, empty parts included; one part more than there are occurrences.
RECURSIVE split(_, _)
split(s, sep) ==
    IF ~Contains(s, sep) THEN <<s>>
    ELSE LET i == CHOOSE k \in 1..Len(s) :
                      s[k] = sep /\ \A j \in 1..(k - 1) : s[j] # sep
         IN  <<SubSeq(s, 1, i - 1)>> \o split(SubSeq(s, i + 1, Len(s)), sep)

(***************************************************************************)
(* DataFrames.                                                             *)
(***************************************************************************)
\* DataFrame(): no columns and no rows.
DataFrame == [columns |-> <<>>, data |-> <<>>]

\* name in d.columns
InColumns(d, name) == \E i \in 1..Len(d.columns) : d.columns[i] = name

ColumnIndex(d, name) == CHOOSE i \in 1..Len(d.columns) : d.columns[i] = name

\* d[name]: the values of the column.
GetItem(d, name) == d.data[ColumnIndex(d, name)]

\* d[name] = series: an existing column of that name gets the new values in
\* place, a new name is appended as the last column.
SetItem(d, name, series) ==
    IF InColumns(d, name)
    THEN [d EXCEPT !.data[ColumnIndex(d, name)] = series]
    ELSE [columns |-> Append(d.columns, name), data |-> Append(d.data, series)]

\* The arithmetic of one operator on two values.
Arith(op, x, y) ==
    CASE op = "+" -> x + y
      [] op = "-" -> x - y
      [] op = "*" -> x * y

\* df[column_one] op df[column_two]: row by row.
SeriesOp(op, xs, ys) == [i \in 1..Len(xs) |-> Arith(op, xs[i], ys[i])]

(***************************************************************************)
(* _parse_and_validate_rule (lines 19-58).  None is the failure value.     *)
(***************************************************************************)
None == <<"None">>

\* Variant: refuses fewer than two parts only, and uses the first two.
_parse_and_validate_rule_AtLeastTwo(r, operator, d) ==
    LET separated_parts == split(r, operator) IN
    IF Len(separated_parts) < 2 THEN None
    ELSE LET column_one == strip(separated_parts[1])
             column_two == strip(separated_parts[2])
         IN  IF column_one = <<>> \/ column_two = <<>> THEN None
             ELSE IF ~InColumns(d, column_one) \/ ~InColumns(d, column_two) THEN None
             ELSE <<column_one, column_two>>

\* Variant: the two parts are used as split, not stripped.
_parse_and_validate_rule_NoStrip(r, operator, d) ==
    LET separated_parts == split(r, operator) IN
    IF Len(separated_parts) # 2 THEN None
    ELSE LET column_one == separated_parts[1]
             column_two == separated_parts[2]
         IN  IF column_one = <<>> \/ column_two = <<>> THEN None
             ELSE IF ~InColumns(d, column_one) \/ ~InColumns(d, column_two) THEN None
             ELSE <<column_one, column_two>>

_parse_and_validate_rule(r, operator, d) ==
    LET separated_parts == split(r, operator) IN
    IF Len(separated_parts) # 2 THEN None
    ELSE LET column_one == strip(separated_parts[1])
             column_two == strip(separated_parts[2])
         IN  IF column_one = <<>> \/ column_two = <<>> THEN None
             ELSE IF ~InColumns(d, column_one) \/ ~InColumns(d, column_two) THEN None
             ELSE <<column_one, column_two>>

(***************************************************************************)
(* add_virtual_column (lines 61-188), as a function of the values of its   *)
(* inputs to the value of the frame it returns.                            *)
(***************************************************************************)
\* Variant: the column names of the frame are not looked at.
HasForbiddenColumnNever(d) == FALSE

\* Lines 103-105: some column name of the frame holds an operator.
HasForbiddenColumn(d) ==
    \E i \in 1..Len(d.columns) :
        \E j \in 1..Len(d.columns[i]) : d.columns[i][j] \in FORBIDDEN_IN_COLUMN_NAMES

\* Lines 114-119: the new column's name is refused.
NewColumnRefused(name) ==
    \/ name = <<>>
    \/ ~Contains(name, "_")
    \/ \E i \in 1..Len(name) : ~(isalnum(name[i]) \/ name[i] = "_")

\* Lines 133-135: the stripped rule holds a character that is not allowed.
HasDisallowedChar(r) == \E i \in 1..Len(r) : r[i] \notin ALLOWED_CHARS

\* Line 143: the number of operators of OPERATORS that occur in the rule.
operator_count(r) == Cardinality({i \in 1..Len(OPERATORS) : Contains(r, OPERATORS[i])})

\* One branch of lines 150-182: parse with the operator, copy, compute, set.
Branch(d, r, operator, name) ==
    LET columns == _parse_and_validate_rule(r, operator, d) IN
    IF columns = None THEN DataFrame
    ELSE SetItem(d, name, SeriesOp(operator, GetItem(d, columns[1]), GetItem(d, columns[2])))

\* Variant: the chain without its multiplication branch.
DispatchNoTimes(d, r, name) ==
    IF Contains(r, "+") THEN Branch(d, r, "+", name)
    ELSE IF Contains(r, "-") THEN Branch(d, r, "-", name)
    ELSE DataFrame

\* Lines 150-188: the if / elif / elif / else chain over the operators.
Dispatch(d, r, name) ==
    IF Contains(r, "+") THEN Branch(d, r, "+", name)
    ELSE IF Contains(r, "-") THEN Branch(d, r, "-", name)
    ELSE IF Contains(r, "*") THEN Branch(d, r, "*", name)
    ELSE DataFrame

add_virtual_column(d, rl, name) ==
    IF HasForbiddenColumn(d) THEN DataFrame
    ELSE IF NewColumnRefused(name) THEN DataFrame
    ELSE LET r == strip(rl) IN
         IF HasDisallowedChar(r) THEN DataFrame
         ELSE IF operator_count(r) # 1 THEN DataFrame
         ELSE Dispatch(d, r, name)

(***************************************************************************)
(* The inputs the calls are drawn from.                                    *)
(***************************************************************************)
\* All strings of at most n characters of the set chars.
Strings(chars, n) == UNION {[1..k -> chars] : k \in 0..n}

\* The characters rules are made of: two name characters, the space, a
\* white space character that is not the space, the three operators and a
\* character that is not allowed.
RuleChars == {"a", "_", " ", "\t", "+", "-", "*", "&"}

\* The characters new column names are made of.
NameChars == {"a", "_", "é", "&", " ", "-"}

Rules == Strings(RuleChars, MaxRuleLen)

Names == Strings(NameChars, MaxNameLen)

\* A few rules for the calls that explore names and frames.
SampleRules ==
    { <<"a", "+", "_">>, <<"a", "-", "_">>, <<"a", "*", "_">>,
      <<"_", " ", "-", " ", "a">>, <<"_", "*", "_">>, <<"a", "+", "a", "a">> }

\* A few new column names: a fresh one and the name of an existing column.
SampleNames == { <<"a", "_">>, <<"_">> }

\* The frame of the rule-exploring calls: columns a and _, two rows.
FrameSafe == [columns |-> << <<"a">>, <<"_">> >>, data |-> << <<2, 1>>, <<1, 2>> >>]

\* A frame with a column name that holds an operator (refused at line 104).
FrameUnsafe == [columns |-> << <<"a">>, <<"-", "_">> >>, data |-> << <<2, 1>>, <<1, 2>> >>]

\* Frames of other shapes: no column, one column, three columns.
FrameShapes ==
    { DataFrame,
      [columns |-> << <<"_">> >>, data |-> << <<2, 1>> >>],
      [columns |-> << <<"_">>, <<"a", "_">>, <<"a">> >>,
       data |-> << <<2, 1>>, <<0, 1>>, <<1, 2>> >>] }

\* Frames with columns a and _ and every choice of rows and values.
ValueFrames ==
    { [columns |-> << <<"a">>, <<"_">> >>, data |-> <<xs, ys>>] :
        <<xs, ys>> \in UNION { [1..n -> 0..MaxVal] \X [1..n -> 0..MaxVal] : n \in 0..MaxRows } }

Frames == {FrameSafe, FrameUnsafe} \cup FrameShapes \cup ValueFrames

\* The calls made on a frame: every rule on the two fixed frames, every
\* name on the safe frame, the sample calls on every frame.
CallsFor(d) ==
    (IF d = FrameSafe THEN (Rules \X SampleNames) \cup (SampleRules \X Names) ELSE {})
    \cup (IF d = FrameUnsafe THEN Rules \X {<<"a", "_">>} ELSE {})
    \cup (SampleRules \X SampleNames)

(***************************************************************************)
(* The state machine: a caller holds a frame and calls add_virtual_column  *)
(* on it once.  heap[o] is the value of object o; df and result are        *)
(* references.                                                             *)
(***************************************************************************)
NoObject == <<"NoObject">>

InputRef == 1
FreshRef == 2

\* Variant: result = df, without the copy.
ResultTargetAlias(dfRef, fresh) == dfRef

\* Lines 156, 168, 180: result = df.copy() binds result to a new object.
ResultTarget(dfRef, fresh) == fresh

Init ==
    /\ heap \in {<<d, NoObject>> : d \in Frames}
    /\ df = InputRef
    /\ rule = <<>>
    /\ new_column = <<>>
    /\ result = 0
    /\ pc = "start"

\* One call add_virtual_column(df, r, name).  A failing call returns a new
\* DataFrame(); a successful one returns the object result is bound to,
\* after result[new_column] = ... has been done on it.
Call ==
    /\ pc = "start"
    /\ \E c \in CallsFor(heap[df]) :
          LET r == c[1]
              name == c[2]
              out == add_virtual_column(heap[df], r, name)
              target == IF out = DataFrame THEN FreshRef ELSE ResultTarget(df, FreshRef)
          IN  /\ rule' = r
              /\ new_column' = name
              /\ heap' = [heap EXCEPT ![target] = out]
              /\ result' = target
    /\ pc' = "done"
    /\ UNCHANGED df

Next == Call

Spec == Init /\ [][Next]_vars

(***************************************************************************)
(* Vocabulary of the properties.                                           *)
(***************************************************************************)
Done == pc = "done"

\* The caller's frame and the frame the call returned.
Input == heap[df]
Returned == heap[result]

\* The call succeeded: it did not return the empty frame.
Succeeded == Done /\ Returned # DataFrame

ColumnSet(d) == {d.columns[i] : i \in 1..Len(d.columns)}

\* The characters [A-Za-z0-9_].
AsciiWord == Lower \cup Upper \cup Digit \cup {"_"}

\* The three operator characters.
OperatorChars == {"+", "-", "*"}

\* The number of operator characters in a string, repeats counted.
TotalOperatorChars(s) == Cardinality({i \in 1..Len(s) : s[i] \in OperatorChars})

\* The first of '+', '-', '*' (in that order) present in a string that holds one.
FirstOperator(s) ==
    OPERATORS[CHOOSE i \in 1..Len(OPERATORS) :
                  Contains(s, OPERATORS[i]) /\ \A j \in 1..(i - 1) : ~Contains(s, OPERATORS[j])]

\* The two trimmed operands of a rule that holds an operator.
Operand(rl, n) == strip(split(strip(rl), FirstOperator(strip(rl)))[n])

\* A new column name the specification calls invalid.
InvalidNewName(name) ==
    \/ name = <<>>
    \/ ~Contains(name, "_")
    \/ \E i \in 1..Len(name) : name[i] \notin AsciiWord

----------------------------------------------------------------------------
\* C1: a successful call returns the input's columns plus one new column
\* named new_column: one column more than the input, also when new_column
\* is the name of an existing column.
C1_OneMoreColumn ==
    Succeeded =>
        /\ Len(Returned.columns) = Len(Input.columns) + 1
        /\ ColumnSet(Returned) = ColumnSet(Input) \cup {new_column}

\* C2: after a successful call every column of the input has, in the
\* result, the values it has in the input, row by row.
C2_OriginalDataUnchanged ==
    Succeeded =>
        \A i \in 1..Len(Input.columns) :
            /\ InColumns(Returned, Input.columns[i])
            /\ GetItem(Returned, Input.columns[i]) = Input.data[i]

\* C3: after a successful call, at every row the new column of the result
\* is op applied to the two operand columns as read from the result.
C3_ElementwiseOnResult ==
    Succeeded =>
        LET op == FirstOperator(strip(rule))
            xs == GetItem(Returned, Operand(rule, 1))
            ys == GetItem(Returned, Operand(rule, 2))
            zs == GetItem(Returned, new_column)
        IN  \A i \in 1..Len(zs) :
                zs[i] = (CASE op = "+" -> xs[i] + ys[i]
                           [] op = "-" -> xs[i] - ys[i]
                           [] op = "*" -> xs[i] * ys[i])

\* The six failure conditions of the specification, for a call's inputs.
FailureCondition(d, rl, name) ==
    LET r == strip(rl) IN
    \/ \E c \in ColumnSet(d) : \E i \in 1..Len(c) : c[i] \in OperatorChars
    \/ InvalidNewName(name)
    \/ \E i \in 1..Len(r) : r[i] \notin AsciiWord \cup {" "} \cup OperatorChars
    \/ Cardinality({o \in OperatorChars : Contains(r, o)}) # 1
    \/ Len(split(r, FirstOperator(r))) # 2
    \/ Operand(rl, 1) = <<>> \/ Operand(rl, 2) = <<>>
    \/ Operand(rl, 1) \notin ColumnSet(d) \/ Operand(rl, 2) \notin ColumnSet(d)

\* C4: when one of the six failure conditions holds, the call returns the
\* frame with no columns and no rows.
C4_SentinelOnFailure ==
    Done /\ FailureCondition(Input, rule, new_column) => Returned = DataFrame

\* C5: a new column name that is empty, has no '_' or has a character
\* outside [A-Za-z0-9_] makes the call return the empty frame.
C5_InvalidNewNameRefused ==
    Done /\ InvalidNewName(new_column) => Returned = DataFrame

\* C6: a rule whose trimmed text holds a total number of operator
\* characters other than one makes the call return the empty frame.
C6_OneOperatorOccurrence ==
    Done /\ TotalOperatorChars(strip(rule)) # 1 => Returned = DataFrame

\* C6 witness: the same operator twice in a rule that passes every check
\* before the split, on a frame and with a name that are accepted.
C6_Witness ==
    /\ Done
    /\ ~HasForbiddenColumn(Input) /\ ~NewColumnRefused(new_column)
    /\ ~HasDisallowedChar(strip(rule))
    /\ operator_count(strip(rule)) = 1
    /\ TotalOperatorChars(strip(rule)) = 2
    /\ Returned = DataFrame

WhiteSpace == {" ", "\t", "\n", "\r", "\f"}

\* s without the characters of the set ws at its start and its end.
RECURSIVE Trim(_, _)
Trim(s, ws) ==
    IF s # <<>> /\ Head(s) \in ws THEN Trim(Tail(s), ws)
    ELSE IF s # <<>> /\ s[Len(s)] \in ws THEN Trim(SubSeq(s, 1, Len(s) - 1), ws)
    ELSE s

\* Position i of s lies in a run of characters of the set ws that touches an
\* operator character.
AroundOperator(s, i, ws) ==
    /\ s[i] \in ws
    /\ \/ \E j \in 1..(i - 1) : s[j] \in OperatorChars /\ \A k \in (j + 1)..i : s[k] \in ws
       \/ \E j \in (i + 1)..Len(s) : s[j] \in OperatorChars /\ \A k \in i..(j - 1) : s[k] \in ws

\* s, from position i on, without the runs of characters of ws that touch
\* an operator character.
RECURSIVE RemoveAround(_, _, _)
RemoveAround(s, i, ws) ==
    IF i > Len(s) THEN <<>>
    ELSE (IF AroundOperator(s, i, ws) THEN <<>> ELSE <<s[i]>>) \o RemoveAround(s, i + 1, ws)

\* The rule without its white space at the start, at the end and around
\* the operators: two rules differ only in the amount of such white space
\* exactly when this gives the same text for both.
CanonWhiteSpace(rl) == RemoveAround(Trim(rl, WhiteSpace), 1, WhiteSpace)

\* The same with white space at the start and the end, but only spaces
\* around the operators.
CanonSpaces(rl) == RemoveAround(Trim(rl, WhiteSpace), 1, {" "})

\* C7: two rules that differ only in the amount of white space at the
\* start, at the end or around the operator give the same result: the rule
\* of a call and the same rule without that white space do.
C7_WhitespaceTolerance ==
    Done => add_virtual_column(Input, CanonWhiteSpace(rule), new_column) = Returned

\* C7, amended: the same for rules that differ only in the amount of white
\* space at the start or the end, or in the number of spaces around the
\* operator.
C7_SpaceTolerance ==
    Done => add_virtual_column(Input, CanonSpaces(rule), new_column) = Returned

\* C7 witness: a successful call whose rule has such white space.
C7_Witness == Succeeded /\ CanonSpaces(rule) # rule

\* C8: a call leaves the caller's frame as it was, columns, values and
\* rows; a new column is in the returned frame only.
C8_InputNotMutated ==
    [][pc = "start" /\ pc' = "done" =>
          /\ df' = df
          /\ heap'[df] = heap[df]
          /\ (heap'[result'] # DataFrame /\ ~InColumns(heap[df], new_column') =>
                 /\ InColumns(heap'[result'], new_column')
                 /\ ~InColumns(heap'[df], new_column'))]_vars

\* C8 witness: a successful call that added a column the input lacks.
C8_Witness ==
    Succeeded /\ InColumns(Returned, new_column) /\ ~InColumns(Input, new_column)

\* The operator-count check (lines 143-145) refuses the call: every check
\* before it passes and the count is not one.
RefusedByCount(d, rl, name) ==
    /\ ~HasForbiddenColumn(d)
    /\ ~NewColumnRefused(name)
    /\ ~HasDisallowedChar(strip(rl))
    /\ operator_count(strip(rl)) # 1

WellFormed(d, rl, name) ==
    /\ \A c \in ColumnSet(d) : \A i \in 1..Len(c) : c[i] \notin OperatorChars
    /\ ~InvalidNewName(name)
    /\ \E k \in 1..Len(rl) :
          /\ rl[k] \in OperatorChars
          /\ \A n \in {1, 2} :
                LET part == IF n = 1 THEN SubSeq(rl, 1, k - 1) ELSE SubSeq(rl, k + 1, Len(rl))
                    c == Trim(part, {" "})
                IN  /\ c # <<>>
                    /\ c \in ColumnSet(d)
                    /\ \A i \in 1..Len(c) : c[i] \in AsciiWord

\* C10: a well-formed call does not return the empty frame: the frame it
\* returns holds the column new_column.
C10_WellFormedAccepted ==
    Done /\ WellFormed(Input, rule, new_column) =>
        Returned # DataFrame /\ InColumns(Returned, new_column)

\* C10 witness: a well-formed call with spaces in its rule.
C10_Witness == Done /\ WellFormed(Input, rule, new_column) /\ Contains(rule, " ")

====
